---- MODULE Spec2Model ----
(***************************************************************************)
(* Model of the loss-cone fitting pipeline of src/flux.py:                 *)
(*   ERData (load + whole-sweep cleaning), PitchAngle, LossConeFitter      *)
(*   (_get_normalized_flux, _fit_surface_potential, fit_surface_potential) *)
(*   and FluxData (the orchestrator that builds them in order).            *)
(*                                                                         *)
(* float64 values are modelled as exact rationals n/d (d > 0) or NaN; the  *)
(* comparisons follow IEEE-754: every ordered comparison with NaN is       *)
(* FALSE.  synth_losscone and scipy.optimize.minimize are external: their  *)
(* results are chosen nondeterministically from small sets.                *)
(***************************************************************************)
EXTENDS Integers, Sequences, FiniteSets, TLC

(***************************************************************************)
(* Bounds of the model.                                                    *)
(***************************************************************************)
\* config.SWEEP_ROWS (15 in the deployment), scaled down
SWEEP_ROWS == 2
\* config.CHANNELS (16 in the deployment), scaled down
CHANNELS == 2
\* number of Latin-hypercube scan points (400 in the code), scaled down
LHS_N == 2
\* longest raw table of the loading specification
MaxLoadRows == 3
\* longest raw table of the flux and fitting specifications
MaxRows == 4
\* largest chunk index handed to a direct call
MaxChunkArg == 2

(***************************************************************************)
(* float64                                                                 *)
(***************************************************************************)
F(k) == [nan |-> FALSE, n |-> k, d |-> 1]
NaN == [nan |-> TRUE, n |-> 0, d |-> 1]
IsNaN(x) == x.nan
FLt(a, b) == ~a.nan /\ ~b.nan /\ a.n * b.d < b.n * a.d
FLe(a, b) == ~a.nan /\ ~b.nan /\ a.n * b.d <= b.n * a.d
FGt(a, b) == FLt(b, a)
FGe(a, b) == FLe(b, a)
FAdd(a, b) ==
    IF a.nan \/ b.nan THEN NaN
    ELSE [nan |-> FALSE, n |-> a.n * b.d + b.n * a.d, d |-> a.d * b.d]
FSub(a, b) ==
    IF a.nan \/ b.nan THEN NaN
    ELSE [nan |-> FALSE, n |-> a.n * b.d - b.n * a.d, d |-> a.d * b.d]
FMul(a, b) ==
    IF a.nan \/ b.nan THEN NaN
    ELSE [nan |-> FALSE, n |-> a.n * b.n, d |-> a.d * b.d]
\* a / b for b > 0 (the only divisor the code forms is >= EPS or NaN)
FDiv(a, b) ==
    IF a.nan \/ b.nan \/ b.n <= 0 THEN NaN
    ELSE [nan |-> FALSE, n |-> a.n * b.d, d |-> a.d * b.n]

(***************************************************************************)
(* The raw table.  A row keeps the columns the code reads:                 *)
(*   spec_no, time, the L2 norm of MAG_COLS (bmag), FLUX_COLS (flux) and   *)
(*   the pitch angle the look directions make with a finite field (look).  *)
(* bmag is on an order-preserving scale: 0 -> 0.0, 1 -> 1e-9, 50 -> 50 nT, *)
(* 1000 -> 1e3, 10000 -> 1e4.  A "text" cell is a token read_csv could not *)
(* convert to a number.                                                    *)
(***************************************************************************)
MAG_LOW == 1
MAG_HIGH == 1000
EPOCH_NULL == "1970-01-01T00:00:00"
\* Python's None, and a value that is not None
None == [some |-> FALSE]
Some(x) == [some |-> TRUE, v |-> x]

Num(k) == [kind |-> "num", v |-> F(k)]
NanCell == [kind |-> "num", v |-> NaN]
TextCell == [kind |-> "text", v |-> NaN]

MagCells == {NanCell, Num(0), Num(MAG_LOW), Num(50), Num(MAG_HIGH), Num(10000), TextCell}
GoodTime == "1998-01-16T00:00:00"
SpecNos == {7, 8}
FluxVals == {NaN, F(-4), F(0), F(4)}
\* config.EPS, in the unit of the flux values above
EPS == 2

Uniform(v) == [c \in 1..CHANNELS |-> v]

MkRow(s, t, b, fl, lk) ==
    [spec_no |-> s, time |-> t, bmag |-> b, flux |-> fl, look |-> lk]

\* pd.read_csv: the rows in file order under the default RangeIndex 0..n-1
ReadCsv(rows) == [i \in 1..Len(rows) |-> [idx |-> i - 1, row |-> rows[i]]]

(***************************************************************************)
(* ERData._clean_sweep_data                                                *)
(***************************************************************************)
\* to_numpy(dtype=np.float64) raises ValueError on a non-numeric cell
CleanRaises(df) == \E i \in 1..Len(df) : df[i].row.bmag.kind = "text"

magnetic_field_magnitude(r) == r.bmag.v

invalid_mag_mask(r) ==
    \/ FLe(magnetic_field_magnitude(r), F(MAG_LOW))
    \/ FGe(magnetic_field_magnitude(r), F(MAG_HIGH))

invalid_time_mask(r) == r.time = EPOCH_NULL

invalid_rows_mask(r) == invalid_mag_mask(r) \/ invalid_time_mask(r)

invalid_spec_nos(df) ==
    {df[i].row.spec_no : i \in {j \in 1..Len(df) : invalid_rows_mask(df[j].row)}}

\* mutant: row removal instead of whole-sweep removal
KeepValidRowOnly(e, bad) == ~invalid_rows_mask(e.row)

KeepValid(e, bad) == e.row.spec_no \notin bad

\* mutant: the kept rows keep the labels they had before the selection
reset_index_kept(df) == df

\* DataFrame.reset_index(drop=True)
reset_index(df) == [i \in 1..Len(df) |-> [idx |-> i - 1, row |-> df[i].row]]

RECURSIVE Filter(_, _)
\* boolean-mask selection self.data[valid_mask]: kept rows keep their labels
Filter(df, bad) ==
    IF df = <<>> THEN <<>>
    ELSE IF KeepValid(Head(df), bad) THEN <<Head(df)>> \o Filter(Tail(df), bad)
         ELSE Filter(Tail(df), bad)

_clean_sweep_data(df) ==
    IF invalid_spec_nos(df) # {}
    THEN reset_index(Filter(df, invalid_spec_nos(df)))
    ELSE df

(***************************************************************************)
(* ERData._load_data: what self.data is when __init__ returns.             *)
(* file.outcome: "ok", or the exception read_csv raises.                   *)
(***************************************************************************)
ReadOutcomes == {"ok", "FileNotFoundError", "ParserError", "OSError"}

\* mutant: a handler that leaves the table read so far in place
HandledDataKept(raw) == Some(raw)

\* the except clauses: every Exception ends with self.data = None
HandledData(raw) == None

_load_data(file) ==
    IF file.outcome # "ok" THEN None
    ELSE IF CleanRaises(ReadCsv(file.rows)) THEN HandledData(ReadCsv(file.rows))
    ELSE Some(_clean_sweep_data(ReadCsv(file.rows)))


(***************************************************************************)
(* PitchAngle._process_data / calculate_pitch_angles: one pitch angle per  *)
(* (row, channel), in degrees.  The unit field vector is B / |B|, so a NaN *)
(* magnitude makes every pitch angle of the row NaN; otherwise arccos of   *)
(* the clipped dot product is the angle the look direction makes (look).   *)
(***************************************************************************)
pitch_angles(df) ==
    [i \in 1..Len(df) |->
        [c \in 1..CHANNELS |->
            IF IsNaN(magnetic_field_magnitude(df[i].row)) THEN NaN
            ELSE F(df[i].row.look[c])]]

(***************************************************************************)
(* LossConeFitter._generate_latin_hypercube                                *)
(* LatinHypercube(d=2, scramble=False).random(n): sample j of dimension k  *)
(* is (perm_k[j] - 0.5) / n, where perm_1 and perm_2 are permutations of   *)
(* 1..n shuffled by the sampler's generator; no seed is given, so the      *)
(* generator is freshly seeded and the permutations are any permutations.  *)
(* The rows are listed here in the order of their first coordinate: the    *)
(* order of the rows only decides which of several equal minima the scan   *)
(* takes, and the objective's values are arbitrary, so every start point   *)
(* the code can take from a sample is still taken.                         *)
(***************************************************************************)
DU_LOWER == -1000
DU_UPPER == 1000
BS_LOWER == [nan |-> FALSE, n |-> 1, d |-> 10]
BS_UPPER == F(1)

Perms == {p \in [1..LHS_N -> 1..LHS_N] : \A a, b \in 1..LHS_N : p[a] = p[b] => a = b}

\* centred sample (k - 0.5) / n
Centred(k) == [nan |-> FALSE, n |-> 2 * k - 1, d |-> 2 * LHS_N]

\* scipy.stats.qmc.scale: lower + sample * (upper - lower)
scale(u, lower, upper) == FAdd(lower, FMul(u, FSub(upper, lower)))

ScanPoint(k1, k2) ==
    [dU |-> scale(Centred(k1), F(DU_LOWER), F(DU_UPPER)),
     bs |-> scale(Centred(k2), BS_LOWER, BS_UPPER)]

LhsOf(p2) == [j \in 1..LHS_N |-> ScanPoint(j, p2[j])]

\* every sample _generate_latin_hypercube can return
_generate_latin_hypercube == {LhsOf(p2) : p2 \in Perms}

(***************************************************************************)
(* LossConeFitter._get_normalized_flux(energy_bin, measurement_chunk)      *)
(* The returned record adds, to the vector returned (out), whether the     *)
(* call raised, the row index, the divisor and the branch taken.           *)
(***************************************************************************)
NanVector == [c \in 1..CHANNELS |-> NaN]

RECURSIVE SumOver(_, _)
SumOver(v, S) ==
    IF S = {} THEN F(0)
    ELSE LET c == CHOOSE x \in S : TRUE
         IN  FAdd(v[c], SumOver(v, S \ {c}))

\* np.mean over the selected channels
Mean(v, S) == FDiv(SumOver(v, S), F(Cardinality(S)))

\* mutant: max(b, a), which keeps a NaN mean
PyMaxSwapped(a, b) == IF FGt(a, b) THEN a ELSE b

\* Python's max(a, b): b replaces a only when b > a
PyMax(a, b) == IF FGt(b, a) THEN b ELSE a

\* mutant: > for >=
IndexOutOfBoundsStrict(index, len) == index > len

\* the >= of the bounds test
IndexOutOfBounds(index, len) == index >= len

IncidentFlux(electron_flux, incident) == PyMax(F(EPS), Mean(electron_flux, incident))

Normalize(electron_flux, incident_flux) ==
    [c \in 1..CHANNELS |-> FDiv(electron_flux[c], incident_flux)]

_get_normalized_flux(df, pitch, energy_bin, measurement_chunk) ==
    LET index == measurement_chunk * SWEEP_ROWS + energy_bin
    IN  IF IndexOutOfBounds(index, Len(df))
        THEN [raised |-> FALSE, out |-> NanVector, index |-> index,
              incident_flux |-> NaN, path |-> "bounds"]
        ELSE IF index + 1 \notin DOMAIN df
        THEN [raised |-> TRUE, out |-> NanVector, index |-> index,
              incident_flux |-> NaN, path |-> "IndexError"]
        ELSE IF pitch = None
        THEN [raised |-> FALSE, out |-> NanVector, index |-> index,
              incident_flux |-> NaN, path |-> "no_pitch"]
        ELSE
        LET electron_flux == df[index + 1].row.flux
            angles == pitch.v[index + 1]
            incident_mask == {c \in 1..CHANNELS : FLt(angles[c], F(90))}
        IN  IF incident_mask = {}
            THEN [raised |-> FALSE, out |-> NanVector, index |-> index,
                  incident_flux |-> NaN, path |-> "no_incident"]
            ELSE LET incident_flux == IncidentFlux(electron_flux, incident_mask)
                 IN  [raised |-> FALSE,
                      out |-> Normalize(electron_flux, incident_flux),
                      index |-> index,
                      incident_flux |-> incident_flux, path |-> "normalized"]

\* build_norm2d: the rows of _get_normalized_flux for the bins 0..SWEEP_ROWS-1
build_norm2d(df, pitch, measurement_chunk) ==
    [b \in 1..SWEEP_ROWS |->
        _get_normalized_flux(df, pitch, b - 1, measurement_chunk).out]


(***************************************************************************)
(* LossConeFitter._fit_surface_potential(measurement_chunk)                *)
(* chi2 gives the objective's value at each scan point (synth_losscone is  *)
(* external) and minimize gives scipy's OptimizeResult for a start point.  *)
(* The returned record adds, to the value returned or the error raised,    *)
(* which stages ran and the OptimizeResult the refinement gave.            *)
(***************************************************************************)
NanTriple == <<NaN, NaN, NaN>>

\* np.isnan(norm2d).all()
AllNaN(norm2d) == \A b \in 1..SWEEP_ROWS : \A c \in 1..CHANNELS : IsNaN(norm2d[b][c])

\* mutant: the test for an all-NaN matrix left out
NoUsableDataUnchecked(norm2d) == FALSE

NoUsableData(norm2d) == AllNaN(norm2d)

\* np.argmin: the first NaN if there is one, else the first smallest value
ArgMin(vals) ==
    IF \E j \in DOMAIN vals : IsNaN(vals[j])
    THEN CHOOSE j \in DOMAIN vals :
            IsNaN(vals[j]) /\ \A k \in 1..(j - 1) : ~IsNaN(vals[k])
    ELSE CHOOSE j \in DOMAIN vals :
            /\ \A k \in DOMAIN vals : FLe(vals[j], vals[k])
            /\ \A k \in 1..(j - 1) : FLt(vals[j], vals[k])

\* the start of the local refinement: lhs[argmin of chi2 over the rows of lhs]
ScanStart(lhs, chi2) == lhs[ArgMin([j \in 1..LHS_N |-> chi2[lhs[j]]])]

\* mutant: a failed refinement masked as a NaN result
OnFailureMasked(result) ==
    [kind |-> "return", value |-> NanTriple, message |-> "",
     scanned |-> TRUE, refined |-> TRUE, result |-> Some(result)]

\* a failed refinement raises RuntimeError with the solver's message
OnFailure(result) ==
    [kind |-> "raise", value |-> NanTriple,
     message |-> "Optimisation failed: " \o result.message,
     scanned |-> TRUE, refined |-> TRUE, result |-> Some(result)]

_fit_surface_potential(df, pitch, lhs, measurement_chunk, chi2, minimize) ==
    LET norm2d == build_norm2d(df, pitch, measurement_chunk)
        s == measurement_chunk * SWEEP_ROWS
        max_rows == Len(df)
        nodata == [kind |-> "return", value |-> NanTriple, message |-> "",
                   scanned |-> FALSE, refined |-> FALSE, result |-> None]
    IN  IF NoUsableData(norm2d) THEN nodata
        ELSE IF s >= max_rows THEN nodata
        ELSE IF pitch = None \/ s >= Len(pitch.v) THEN nodata
        ELSE
        LET x0 == ScanStart(lhs, chi2)
            result == minimize[x0]
        IN  IF ~result.success THEN OnFailure(result)
            ELSE [kind |-> "return",
                  value |-> <<result.x.dU, result.x.bs, result.fun>>,
                  message |-> "", scanned |-> TRUE, refined |-> TRUE,
                  result |-> Some(result)]

(***************************************************************************)
(* The external world of one chunk fit.                                    *)
(***************************************************************************)
\* values of the objective: NaN (a NaN in norm2d) or a sum of squares
ChiVals == {NaN, F(0), F(3)}

Half == [nan |-> FALSE, n |-> 1, d |-> 2]
\* points a Nelder-Mead run can end at: Nelder-Mead is given no bounds
XPoints ==
    {[dU |-> F(0), bs |-> Half],
     [dU |-> F(-1500), bs |-> Half],
     [dU |-> F(0), bs |-> [nan |-> FALSE, n |-> 6, d |-> 5]]}

FailMessages ==
    {"Maximum number of iterations has been exceeded.",
     "Maximum number of function evaluations has been exceeded."}

MinimizeResults ==
    {[success |-> TRUE, message |-> "Optimization terminated successfully.",
      x |-> p, fun |-> F(0)] : p \in XPoints}
    \cup {[success |-> FALSE, message |-> m, x |-> [dU |-> F(0), bs |-> Half],
           fun |-> F(3)] : m \in FailMessages}

Points(lhs) == {lhs[j] : j \in 1..LHS_N}

(***************************************************************************)
(* LossConeFitter.fit_surface_potential: the loop, one chunk per step.     *)
(***************************************************************************)
Absent == [status |-> "absent"]

NewRun(lhs) ==
    [status |-> "idle", lhs |-> lhs, n_chunks |-> 0, i |-> 0,
     results |-> <<>>, calls |-> <<>>, error |-> ""]

\* mutant: the trailing partial chunk counted
ChunkCountCeil(rows) == (rows + SWEEP_ROWS - 1) \div SWEEP_ROWS

\* len(self.er_data.data) // config.SWEEP_ROWS
ChunkCount(rows) == rows \div SWEEP_ROWS

RunStart(r, df) ==
    [r EXCEPT !.status = "fitting",
              !.n_chunks = ChunkCount(Len(df)),
              !.i = 0,
              !.results = [k \in 1..ChunkCount(Len(df)) |-> <<F(0), F(0), F(0), F(0)>>]]

CallRecord(chunk, ret) == [chunk |-> chunk, ret |-> ret]

RunStep(r, df, pitch, chi2, minimize) ==
    LET ret == _fit_surface_potential(df, pitch, r.lhs, r.i, chi2, minimize)
        called == Append(r.calls, CallRecord(r.i, ret))
    IN  IF ret.kind = "raise"
        THEN [r EXCEPT !.status = "raised", !.error = ret.message, !.calls = called]
        ELSE [r EXCEPT !.results[r.i + 1] =
                          <<ret.value[1], ret.value[2], ret.value[3], F(r.i)>>,
                       !.i = r.i + 1,
                       !.calls = called]

RunReturn(r) == [r EXCEPT !.status = "returned"]

VARIABLES
    file,       \* the ER data file: what read_csv does with it
    pc,         \* position in FluxData.__init__ / the caller
    data,       \* ERData.data
    pitch,      \* PitchAngle.pitch_angles
    nf,         \* the last _get_normalized_flux call: arguments and result
    fc,         \* the last direct _fit_surface_potential call
    run,        \* the LossConeFitter: lhs and its fit_surface_potential call
    run2        \* a second LossConeFitter built from the same files

vars == <<file, pc, data, pitch, nf, fc, run, run2>>

\* ERData.__init__
ERDataInit ==
    /\ pc = "start"
    /\ data' = _load_data(file)
    /\ pc' = "loaded"
    /\ UNCHANGED <<file, pitch, nf, fc, run, run2>>

\* FluxData.__init__, line 400: PitchAngle.__init__ asserts the data is loaded
PitchAngleInit ==
    /\ pc = "loaded"
    /\ IF data = None
       THEN pc' = "AssertionError" /\ UNCHANGED pitch
       ELSE pc' = "pitch" /\ pitch' = Some(pitch_angles(data.v))
    /\ UNCHANGED <<file, data, nf, fc, run, run2>>

\* FluxData.__init__, line 401: LossConeFitter.__init__
FitterInit ==
    /\ pc = "pitch"
    /\ pitch' = Some(pitch_angles(data.v))
    /\ \E lhs \in _generate_latin_hypercube : run' = NewRun(lhs)
    /\ pc' = "ready"
    /\ UNCHANGED <<file, data, nf, fc, run2>>

\* a caller's _get_normalized_flux(energy_bin, measurement_chunk); the call
\* changes no state of the fitter, so one call per behaviour shows them all
GetNormalizedFlux ==
    /\ pc = "ready"
    /\ nf = None
    /\ \E energy_bin \in 0..(SWEEP_ROWS - 1), measurement_chunk \in 0..MaxChunkArg :
          nf' = Some([energy_bin |-> energy_bin, measurement_chunk |-> measurement_chunk,
                      ret |-> _get_normalized_flux(data.v, pitch, energy_bin,
                                                   measurement_chunk)])
    /\ UNCHANGED <<file, pc, data, pitch, fc, run, run2>>

\* a caller's _fit_surface_potential(measurement_chunk), with any chunk index;
\* the call changes no state of the fitter
FitChunkCall ==
    /\ pc = "ready"
    /\ run.status = "idle"
    /\ fc = None
    /\ \E measurement_chunk \in 0..MaxChunkArg :
       \E chi2 \in [Points(run.lhs) -> ChiVals] :
       \E minimize \in [{ScanStart(run.lhs, chi2)} -> MinimizeResults] :
          fc' = Some(CallRecord(measurement_chunk,
                        _fit_surface_potential(data.v, pitch, run.lhs,
                                               measurement_chunk, chi2, minimize)))
    /\ UNCHANGED <<file, pc, data, pitch, nf, run, run2>>

\* fit_surface_potential up to the loop
FitAllStart ==
    /\ pc = "ready"
    /\ run.status = "idle"
    /\ fc = None
    /\ run' = RunStart(run, data.v)
    /\ UNCHANGED <<file, pc, data, pitch, nf, fc, run2>>

\* one iteration of the loop
FitAllStep ==
    /\ run.status = "fitting"
    /\ run.i < run.n_chunks
    /\ \E chi2 \in [Points(run.lhs) -> ChiVals] :
       \E minimize \in [{ScanStart(run.lhs, chi2)} -> MinimizeResults] :
          run' = RunStep(run, data.v, pitch, chi2, minimize)
    /\ UNCHANGED <<file, pc, data, pitch, nf, fc, run2>>

\* the loop is over: return results
FitAllReturn ==
    /\ run.status = "fitting"
    /\ run.i >= run.n_chunks
    /\ run' = RunReturn(run)
    /\ UNCHANGED <<file, pc, data, pitch, nf, fc, run2>>

(***************************************************************************)
(* Loading: tables over every kind of magnetic-field cell and timestamp.   *)
(***************************************************************************)
LoadRows ==
    {MkRow(s, GoodTime, b, Uniform(F(4)), Uniform(45)) : s \in SpecNos, b \in MagCells}
    \cup {MkRow(s, EPOCH_NULL, Num(50), Uniform(F(4)), Uniform(45)) : s \in SpecNos}

Files(Rows, maxLen) ==
    {[outcome |-> "ok", rows |-> rs] :
        rs \in UNION {[1..n -> Rows] : n \in 0..maxLen}}
    \cup {[outcome |-> o, rows |-> <<>>] : o \in ReadOutcomes \ {"ok"}}

InitRest ==
    /\ pc = "start"
    /\ data = None
    /\ pitch = None
    /\ nf = None
    /\ fc = None
    /\ run = Absent
    /\ run2 = Absent

InitLoad ==
    /\ file \in Files(LoadRows, MaxLoadRows)
    /\ InitRest

NextLoad == ERDataInit \/ PitchAngleInit

SpecLoad == InitLoad /\ [][NextLoad]_vars

(***************************************************************************)
(* Normalized flux: a table of filler rows with one free row.              *)
(***************************************************************************)
FillerRow == MkRow(7, GoodTime, Num(50), Uniform(F(1)), Uniform(45))

FluxRows ==
    {MkRow(7, GoodTime, Num(50), fl, lk) :
        fl \in [1..CHANNELS -> FluxVals], lk \in [1..CHANNELS -> {45, 90}]}
    \cup {MkRow(7, GoodTime, b, fl, Uniform(135)) :
        b \in {Num(50), NanCell}, fl \in [1..CHANNELS -> FluxVals]}

FluxTables ==
    {<<>>} \cup
    {[i \in 1..n |-> IF i = p THEN r ELSE FillerRow] :
        n \in 1..MaxRows, p \in {1, MaxRows}, r \in FluxRows}

InitFlux ==
    /\ file \in {[outcome |-> "ok", rows |-> t] : t \in FluxTables}
    /\ InitRest

NextFlux == ERDataInit \/ PitchAngleInit \/ FitterInit \/ GetNormalizedFlux

SpecFlux == InitFlux /\ [][NextFlux]_vars

(***************************************************************************)
(* Fitting: tables over rows with usable flux, rows with no incident       *)
(* channel, rows with NaN flux and rows of an invalid sweep.               *)
(***************************************************************************)
FitRows ==
    {MkRow(7, GoodTime, Num(50), Uniform(F(4)), Uniform(45)),
     MkRow(7, GoodTime, Num(50), Uniform(F(4)), Uniform(135)),
     MkRow(8, GoodTime, Num(10000), Uniform(F(4)), Uniform(45))}

InitFit ==
    /\ file \in Files(FitRows, MaxRows)
    /\ InitRest

NextFit ==
    \/ ERDataInit
    \/ PitchAngleInit
    \/ FitterInit
    \/ FitChunkCall
    \/ FitAllStart
    \/ FitAllStep
    \/ FitAllReturn

SpecFit == InitFit /\ [][NextFit]_vars

(***************************************************************************)
(* Two fitters built from the same files, fitting the same chunks with the *)
(* same external model: every step hands both the same chi2 and minimize.  *)
(***************************************************************************)
\* a second FluxData(er_data_file, thetas): _load_data and pitch_angles are
\* functions of the files, so it holds the same data and pitch angles
SecondFitterInit ==
    /\ pc = "ready"
    /\ run.status = "idle"
    /\ run2 = Absent
    /\ \E lhs \in _generate_latin_hypercube : run2' = NewRun(lhs)
    /\ UNCHANGED <<file, pc, data, pitch, nf, fc, run>>

InLoop(r) == r.status = "fitting" /\ r.i < r.n_chunks
AtReturn(r) == r.status = "fitting" /\ r.i >= r.n_chunks

BothStart ==
    /\ run.status = "idle"
    /\ run2.status = "idle"
    /\ run' = RunStart(run, data.v)
    /\ run2' = RunStart(run2, data.v)
    /\ UNCHANGED <<file, pc, data, pitch, nf, fc>>

BothStep ==
    /\ run2 # Absent
    /\ InLoop(run) \/ InLoop(run2)
    /\ \E chi2 \in [Points(run.lhs) \cup Points(run2.lhs) -> ChiVals] :
       \E minimize \in [{ScanStart(run.lhs, chi2), ScanStart(run2.lhs, chi2)}
                            -> MinimizeResults] :
          /\ run' = IF InLoop(run)
                    THEN RunStep(run, data.v, pitch, chi2, minimize) ELSE run
          /\ run2' = IF InLoop(run2)
                     THEN RunStep(run2, data.v, pitch, chi2, minimize) ELSE run2
    /\ UNCHANGED <<file, pc, data, pitch, nf, fc>>

BothReturn ==
    /\ run2 # Absent
    /\ ~InLoop(run) /\ ~InLoop(run2)
    /\ AtReturn(run) \/ AtReturn(run2)
    /\ run' = IF AtReturn(run) THEN RunReturn(run) ELSE run
    /\ run2' = IF AtReturn(run2) THEN RunReturn(run2) ELSE run2
    /\ UNCHANGED <<file, pc, data, pitch, nf, fc>>

TwoRows == {MkRow(7, GoodTime, Num(50), Uniform(F(4)), Uniform(45))}

InitTwo ==
    /\ file \in Files(TwoRows, MaxRows)
    /\ InitRest

NextTwo ==
    \/ ERDataInit
    \/ PitchAngleInit
    \/ FitterInit
    \/ SecondFitterInit
    \/ BothStart
    \/ BothStep
    \/ BothReturn

SpecTwo == InitTwo /\ [][NextTwo]_vars

(***************************************************************************)
(* Properties                                                              *)
(***************************************************************************)
\* the rows read_csv gave, before cleaning
RawRows == file.rows

\* a row that is invalid: |B| <= 1e-9, |B| >= 1000, or the epoch-null time
Flagged(r) ==
    \/ r.time = EPOCH_NULL
    \/ /\ r.bmag.kind = "num"
       /\ ~r.bmag.v.nan
       /\ (r.bmag.v.n <= MAG_LOW * r.bmag.v.d \/ r.bmag.v.n >= MAG_HIGH * r.bmag.v.d)

Loaded == pc # "start" /\ data # None

\* C1: after cleaning, no retained row has the spec_no of an input row that was
\* flagged invalid: one invalid row removes every row of its sweep.
WholeSweepRemoval ==
    Loaded =>
        \A i \in 1..Len(RawRows) : \A k \in 1..Len(data.v) :
            Flagged(RawRows[i]) => data.v[k].row.spec_no # RawRows[i].spec_no

\* a valid row shares its sweep with an invalid row, and another sweep is kept
WholeSweepRemovalWitness ==
    /\ Loaded
    /\ Len(data.v) > 0
    /\ \E i, j \in 1..Len(RawRows) :
          /\ Flagged(RawRows[i])
          /\ ~Flagged(RawRows[j])
          /\ RawRows[i].spec_no = RawRows[j].spec_no

\* C2: after cleaning, every retained row has a magnetic-field magnitude that
\* is a number strictly between 1e-9 and 1000.
RetainedMagnitudeInRange ==
    Loaded =>
        \A k \in 1..Len(data.v) :
            LET m == data.v[k].row.bmag.v
            IN  ~m.nan /\ m.n > MAG_LOW * m.d /\ m.n < MAG_HIGH * m.d

\* positions of the input rows whose spec_no no invalid row has
UntouchedIdx ==
    {i \in 1..Len(RawRows) :
        \A j \in 1..Len(RawRows) :
            Flagged(RawRows[j]) => RawRows[j].spec_no # RawRows[i].spec_no}

\* how many rows of valid sweeps there are up to input position i
UntouchedRank(i) == Cardinality({j \in UntouchedIdx : j <= i})

\* C11: cleaning leaves valid sweeps untouched: every input row whose spec_no no
\* invalid row has is retained with its field values unchanged, these rows stand
\* in their input order, the retained rows are labelled 0..n-1 without gaps, and
\* a table with no invalid row comes back as it was read.
ValidSweepsUntouched ==
    Loaded =>
        /\ Len(data.v) >= Cardinality(UntouchedIdx)
        /\ \A i \in UntouchedIdx : data.v[UntouchedRank(i)].row = RawRows[i]
        /\ \A k \in 1..Len(data.v) : data.v[k].idx = k - 1
        /\ (\A j \in 1..Len(RawRows) : ~Flagged(RawRows[j])) =>
               data.v = ReadCsv(RawRows)

\* a sweep is removed ahead of two different rows of a valid sweep
ValidSweepsUntouchedWitness ==
    /\ Loaded
    /\ \E i, j, k \in 1..Len(RawRows) :
          /\ i < j /\ j < k
          /\ Flagged(RawRows[i])
          /\ j \in UntouchedIdx /\ k \in UntouchedIdx
          /\ RawRows[j] # RawRows[k]
          /\ data.v[1].row = RawRows[j]
          /\ data.v[2].row = RawRows[k]

\* the file cannot be read, or a cell of the magnetic-field columns is no number
LoadFails ==
    \/ file.outcome # "ok"
    \/ \E i \in 1..Len(RawRows) : RawRows[i].bmag.kind = "text"

\* C3: when loading fails (read_csv raises, or cleaning raises after the raw
\* table was assigned), ERData construction ends with data = None.
LoadFailureGivesNone == (pc # "start" /\ LoadFails) => data = None

\* cleaning raised on a table that read_csv had parsed
LoadFailureWitness ==
    /\ pc = "loaded"
    /\ file.outcome = "ok"
    /\ Len(RawRows) > 1
    /\ LoadFails
    /\ data = None

\* the row index of the last _get_normalized_flux call
NfIndex == nf.v.measurement_chunk * SWEEP_ROWS + nf.v.energy_bin

NfInBounds == NfIndex < Len(data.v)

NfHasIncident ==
    \E c \in 1..CHANNELS :
        LET a == pitch.v[NfIndex + 1][c] IN ~a.nan /\ a.n < 90 * a.d

IsNanVector(v) == DOMAIN v = 1..CHANNELS /\ \A c \in 1..CHANNELS : v[c].nan

\* C4: _get_normalized_flux returns an all-NaN vector of length CHANNELS,
\* without raising, when the row index is out of bounds or no channel of the
\* row has a pitch angle below 90 degrees.
NanFluxWhenNoData ==
    (nf # None /\ (~NfInBounds \/ ~NfHasIncident)) =>
        ~nf.v.ret.raised /\ IsNanVector(nf.v.ret.out)

\* the index just past the last row of a non-empty dataset
NanFluxWitness ==
    /\ nf # None
    /\ Len(data.v) > 0
    /\ NfIndex = Len(data.v)
    /\ IsNanVector(nf.v.ret.out)

NfFlux == data.v[NfIndex + 1].row.flux

NfIncident ==
    {c \in 1..CHANNELS : LET a == pitch.v[NfIndex + 1][c] IN ~a.nan /\ a.n < 90 * a.d}

\* the sum of the incident flux as a rational, when none of it is NaN
RECURSIVE NumSum(_, _)
NumSum(v, S) ==
    IF S = {} THEN 0
    ELSE LET c == CHOOSE x \in S : TRUE IN v[c].n + NumSum(v, S \ {c})

NfMeanIsNumber == \A c \in NfIncident : ~NfFlux[c].nan

\* mean >= EPS, the flux values being integers
NfMeanAtLeastEps == NfMeanIsNumber /\ NumSum(NfFlux, NfIncident) >= EPS * Cardinality(NfIncident)

\* C5: when an incident channel exists, the divisor is max(EPS, mean incident
\* flux), a number never below EPS, and every channel is divided by it.
DivisorAtLeastEps ==
    (nf # None /\ NfInBounds /\ NfHasIncident) =>
        LET q == nf.v.ret.incident_flux
        IN  /\ ~q.nan
            /\ q.n >= EPS * q.d
            /\ IF NfMeanAtLeastEps
               THEN q.n * Cardinality(NfIncident) = NumSum(NfFlux, NfIncident) * q.d
               ELSE q.n = EPS * q.d
            /\ \A c \in 1..CHANNELS :
                  LET o == nf.v.ret.out[c]
                  IN  /\ o.nan <=> NfFlux[c].nan
                      /\ ~o.nan => o.n * q.n * NfFlux[c].d = NfFlux[c].n * o.d * q.d

\* an incident channel whose flux is NaN, next to a reflected channel
DivisorWitness ==
    /\ nf # None
    /\ NfInBounds
    /\ NfHasIncident
    /\ \E c \in NfIncident : NfFlux[c].nan
    /\ \E c \in (1..CHANNELS) \ NfIncident : ~NfFlux[c].nan
    /\ nf.v.ret.incident_flux = F(EPS)

\* every _fit_surface_potential call so far: those of the loop and a direct one
Calls ==
    {run.calls[j] : j \in 1..(IF run.status \in {"absent", "idle"} THEN 0 ELSE Len(run.calls))}
    \cup (IF fc = None THEN {} ELSE {fc.v})

IsNanTriple(t) == Len(t) = 3 /\ t[1].nan /\ t[2].nan /\ t[3].nan

\* the chunk's rows are all out of bounds, without an incident channel, or
\* their flux is NaN in every channel
ChunkAllNaN(chunk) ==
    \A b \in 0..(SWEEP_ROWS - 1) :
        LET index == chunk * SWEEP_ROWS + b
        IN  \/ index >= Len(data.v)
            \/ \A c \in 1..CHANNELS :
                  LET a == pitch.v[index + 1][c] IN a.nan \/ a.n >= 90 * a.d
            \/ \A c \in 1..CHANNELS : data.v[index + 1].row.flux[c].nan

\* C6: _fit_surface_potential returns the NaN triple, without raising and
\* without the scan or the refinement, for every chunk whose matrix is all
\* NaN; a chunk that starts at or beyond the dataset end is one.
NanTripleWhenAllNaN ==
    \A call \in Calls :
        /\ call.chunk * SWEEP_ROWS >= Len(data.v) => ChunkAllNaN(call.chunk)
        /\ ChunkAllNaN(call.chunk) =>
              /\ call.ret.kind = "return"
              /\ IsNanTriple(call.ret.value)
              /\ ~call.ret.scanned
              /\ ~call.ret.refined

\* a chunk inside the dataset whose rows have no incident channel
NanTripleWitness ==
    \E call \in Calls :
        /\ (call.chunk + 1) * SWEEP_ROWS <= Len(data.v)
        /\ ChunkAllNaN(call.chunk)
        /\ IsNanTriple(call.ret.value)

\* C7: when no chunk fit fails, fit_surface_potential returns floor(rows /
\* SWEEP_ROWS) rows; chunk 0, 1, ... are fit once each in this order, row i
\* holds chunk i's result and i, and a trailing partial chunk is never fit.
FitAllTable ==
    run.status = "returned" =>
        LET k == Len(run.results)
        IN  /\ k * SWEEP_ROWS <= Len(data.v)
            /\ Len(data.v) < (k + 1) * SWEEP_ROWS
            /\ Len(run.calls) = k
            /\ \A j \in 1..k :
                  /\ run.calls[j].chunk = j - 1
                  /\ run.calls[j].ret.kind = "return"
                  /\ run.results[j] = run.calls[j].ret.value \o <<F(j - 1)>>

\* two chunks fit in order, with different results
FitAllTableWitness ==
    /\ run.status = "returned"
    /\ Len(run.results) = 2
    /\ ~IsNanTriple(run.calls[1].ret.value)
    /\ ~IsNanTriple(run.calls[2].ret.value)
    /\ run.calls[1].ret.value # run.calls[2].ret.value

\* C8: a refinement that reports non-success makes _fit_surface_potential
\* raise with the solver's message, fit_surface_potential raises it on,
\* returns no table and fits no later chunk; an all-NaN chunk before it
\* neither raises nor stops the loop.
FailFast ==
    run.status \in {"fitting", "returned", "raised"} =>
        /\ \A j \in 1..Len(run.calls) :
              LET call == run.calls[j]
                  failed == call.ret.result # None /\ ~call.ret.result.v.success
              IN  /\ failed =>
                        /\ call.ret.kind = "raise"
                        /\ call.ret.message =
                              "Optimisation failed: " \o call.ret.result.v.message
                        /\ run.status = "raised"
                        /\ run.error = call.ret.message
                        /\ j = Len(run.calls)
                  /\ ~failed => call.ret.kind = "return"
                  /\ call.chunk = j - 1
        /\ run.status = "raised" =>
              /\ Len(run.calls) > 0
              /\ run.calls[Len(run.calls)].ret.kind = "raise"
              /\ run.i = Len(run.calls) - 1
              /\ ~run.results[run.i + 1][1].nan

\* chunk 1 failed after chunk 0, which has no data, returned the NaN triple
FailFastWitness ==
    /\ run.status = "raised"
    /\ Len(run.calls) = 2
    /\ IsNanTriple(run.calls[1].ret.value)
    /\ run.calls[1].ret.kind = "return"

InBox(dU, bs) ==
    /\ ~dU.nan /\ dU.n >= DU_LOWER * dU.d /\ dU.n <= DU_UPPER * dU.d
    /\ ~bs.nan /\ FLe(BS_LOWER, bs) /\ FLe(bs, BS_UPPER)

\* C9: every fit of a chunk with usable data lies in the box of the scan:
\* dU in [-1000, 1000] and B_s/B_m in [0.1, 1.0].
FitInsideBox ==
    \A call \in Calls :
        (call.ret.kind = "return" /\ ~IsNanTriple(call.ret.value)) =>
            InBox(call.ret.value[1], call.ret.value[2])

\* C10: two runs of fit_surface_potential on the same files with the same
\* external model return the same result table.
Deterministic ==
    (run2 # Absent /\ run.status = "returned" /\ run2.status = "returned") =>
        run.results = run2.results
====
